---- MODULE Spec2Model ----
(***************************************************************************)
(* The daily-tasks bot of src/main.py: the persisted configuration record, *)
(* the job queue with its "daily_tasks" trigger, the command handlers and  *)
(* the timer-driven delivery.                                              *)
(*                                                                         *)
(* Text is modelled as tuples of one-character strings, so that parsing    *)
(* (int(), split(":"), strip()) and formatting (f"{hh:02d}") are computed  *)
(* as Python computes them.  Python's None is modelled as 0 for chat and   *)
(* thread identifiers (real identifiers are non-zero; `not chat_id` is     *)
(* true of both None and 0).                                               *)
(*                                                                         *)
(* Every handler of main.py runs synchronously up to its first await, and  *)
(* no handler reads or writes the record or the job queue after an await.  *)
(* An action is therefore a handler's synchronous part; a delivery whose   *)
(* outcome send_tasks waits for stays in `pending` until GatewayReturn.     *)
(***************************************************************************)
EXTENDS Integers, Sequences, FiniteSets, TLC

VARIABLES
    pc,             \* "boot" before main() armed the scheduler, then "polling" ("crashed": main raised)
    file,           \* CONFIG_PATH: [st |-> "absent" | "ok" | "corrupt", doc |-> the JSON object]
    default_tasks,  \* the list object DEFAULT_CFG["tasks"] (DEFAULT_CFG.copy() is shallow)
    jobs,           \* app.job_queue.jobs(): sequence of [name, time]
    now,            \* minute of the day of the last instant the clock passed
    pending,        \* deliveries handed to the gateway whose coroutine awaits the outcome
    effects,        \* gateway calls and log lines issued by the last step, in order
    sender,         \* the user whose mutating command the last step accepted (0: it accepted none)
    today,          \* SpecDay's record of the calendar day: the timer's deliveries since midnight
    running         \* SpecConc's handler coroutines: the updates dispatched together and how far each has run

vars == <<pc, file, default_tasks, jobs, now, pending, effects, sender, today, running>>

(***************************************************************************)
(* Bounds of the model.                                                    *)
(***************************************************************************)
MaxTasks == 2       \* addtask is not offered beyond this many tasks
MaxPending == 1     \* deliveries in flight at once
MaxLong == 11       \* longest task list a configuration file starts with (SpecLong)
MaxFields == 3      \* most fields of a configuration file written by hand (SpecText)
MaxRunning == 2     \* updates whose handlers run concurrently (SpecConc)

None == 0

(***************************************************************************)
(* Text helpers: Python's str.strip, str.split, int and format.            *)
(***************************************************************************)
DigitChars == <<"0", "1", "2", "3", "4", "5", "6", "7", "8", "9">>

IsDigit(c) == \E i \in 1..10 : DigitChars[i] = c

DigitVal(c) == (CHOOSE i \in 1..10 : DigitChars[i] = c) - 1

RECURSIVE LStrip(_)
LStrip(s) == IF s # <<>> /\ Head(s) = " " THEN LStrip(Tail(s)) ELSE s

RECURSIVE RStrip(_)
RStrip(s) == IF s # <<>> /\ s[Len(s)] = " " THEN RStrip(SubSeq(s, 1, Len(s) - 1)) ELSE s

\* str.strip()
Strip(s) == RStrip(LStrip(s))

RECURSIVE Split(_, _)
\* str.split(sep) for a one-character separator
Split(s, sep) ==
    IF \A i \in 1..Len(s) : s[i] # sep
    THEN <<s>>
    ELSE LET i == CHOOSE k \in 1..Len(s) : s[k] = sep /\ \A m \in 1..(k - 1) : s[m] # sep
         IN  <<SubSeq(s, 1, i - 1)>> \o Split(SubSeq(s, i + 1, Len(s)), sep)

RECURSIVE Join(_)
\* " ".join(words)
Join(words) ==
    IF words = <<>> THEN <<>>
    ELSE IF Len(words) = 1 THEN words[1]
    ELSE words[1] \o <<" ">> \o Join(Tail(words))

RECURSIVE DigitsValue(_)
DigitsValue(s) == IF s = <<>> THEN 0 ELSE 10 * DigitsValue(SubSeq(s, 1, Len(s) - 1)) + DigitVal(s[Len(s)])

\* int(s): surrounding blanks, an optional sign, then one or more digits;
\* anything else raises ValueError (ok = FALSE).
PyInt(s) ==
    LET t == Strip(s)
        signed == t # <<>> /\ Head(t) \in {"+", "-"}
        d == IF signed THEN Tail(t) ELSE t
        good == d # <<>> /\ \A i \in 1..Len(d) : IsDigit(d[i])
    IN  IF ~good THEN [ok |-> FALSE, val |-> 0]
        ELSE [ok |-> TRUE,
              val |-> IF signed /\ Head(t) = "-" THEN 0 - DigitsValue(d) ELSE DigitsValue(d)]

RECURSIVE NatStr(_)
NatStr(n) == IF n < 10 THEN <<DigitChars[n + 1]>> ELSE NatStr(n \div 10) \o <<DigitChars[(n % 10) + 1]>>

\* f"{n:02d}"
Format02d(n) ==
    LET body == IF n < 0 THEN <<"-">> \o NatStr(0 - n) ELSE NatStr(n)
    IN  IF Len(body) >= 2 THEN body
        ELSE IF n < 0 THEN <<"-", "0">> \o Tail(body) ELSE <<"0">> \o body

\* hh, mm = map(int, val.split(":")): exactly two fields, both integers
ParseHM(val) ==
    LET f == Split(val, ":")
    IN  IF Len(f) # 2 THEN [ok |-> FALSE, hh |-> 0, mm |-> 0]
        ELSE LET h == PyInt(f[1])
                 m == PyInt(f[2])
             IN  [ok |-> h.ok /\ m.ok, hh |-> h.val, mm |-> m.val]

\* Python truthiness of a chat id or of a string / list
Truthy(x) == x # None

(***************************************************************************)
(* Configuration store                                                     *)
(***************************************************************************)
T0900 == <<"0", "9", ":", "0", "0">>

\* DEFAULT_CFG, with its "tasks" entry read through the shared list object dt
DEFAULT_CFG(dt) ==
    [tasks |-> dt, target_chat_id |-> None, target_thread_id |-> None,
     send_time |-> T0900, post_on_start |-> FALSE]

Absent == [st |-> "absent", doc |-> [tasks |-> <<>>]]

\* load_config(): the defaults, overridden by what the file holds
load_config(f, dt) ==
    IF f.st # "ok" THEN DEFAULT_CFG(dt)
    ELSE LET d == DEFAULT_CFG(dt)
         IN  [k \in (DOMAIN d) \cup (DOMAIN f.doc) |->
                 IF k \in DOMAIN f.doc THEN f.doc[k] ELSE d[k]]

\* whether cfg["tasks"] of load_config() is the list object of DEFAULT_CFG
TasksAliased(f) == f.st # "ok" \/ "tasks" \notin DOMAIN f.doc

\* save_config(cfg): the file holds the object
save_config(cfg) == [st |-> "ok", doc |-> cfg]

(***************************************************************************)
(* Inputs: who sends a command, from where, and with which arguments.      *)
(***************************************************************************)
Users == {1, 2}

\* (effective_chat.id, message_thread_id) of an update: a private chat and a forum topic
Direct == [chat |-> 1, thread |-> None]

Topic == [chat |-> 2, thread |-> 7]

Places == {Direct, Topic}

TaskA == <<"a">>
TaskB == <<"b">>

\* context.args of /settime
SettimeArgs ==
    { <<>>,
      << <<"0", "9", ":", "0", "0">> >>,
      << <<"9", ":", "5">> >>,
      << <<"2", "4", ":", "0", "0">> >>,
      << <<"2", "5", ":", "0", "0">> >>,
      << <<"0", "9", ":", "6", "0">> >>,
      << <<"-", "1", ":", "0", "0">> >>,
      << <<"a", "b", ":", "c", "d">> >>,
      << <<"0", "9", "0", "0">> >>,
      << <<"0", "9", ":", "0", "0", ":", "0", "0">> >> }

\* context.args of /addtask
AddtaskArgs == { <<>>, <<TaskA>>, <<TaskA, TaskB>> }

\* context.args of /deltask
DeltaskArgs ==
    { <<>>, << <<"0">> >>, << <<"1">> >>, << <<"2">> >>, << <<"9">> >>,
      << <<"-", "1">> >>, << <<"x">> >>, << <<"1">>, <<"2">> >> }

(***************************************************************************)
(* Gateway calls and log lines                                             *)
(***************************************************************************)
Call(api, chat, thread, text, lines, options, by) ==
    [api |-> api, chat |-> chat, thread |-> thread, text |-> text,
     lines |-> lines, options |-> options, by |-> by]

\* update.effective_chat.send_message(text)
Reply(p, text, by) == Call("send_message", p.chat, None, text, <<>>, <<>>, by)

\* print(...) / logging
Log(text, by) == Call("print", None, None, text, <<>>, <<>>, by)

\* error_handler: logs the exception and tells the chat
error_handler(p, by) == <<Log("exception", "error_handler"), Reply(p, "error", "error_handler")>>

(***************************************************************************)
(* Rendering                                                               *)
(***************************************************************************)
PollMax == 10

\* format_tasks: one numbered line per task
format_tasks(tasks) ==
    IF tasks = <<>> THEN << <<"e", "m", "p", "t", "y">> >>
    ELSE [i \in 1..Len(tasks) |-> NatStr(i) \o <<".", " ">> \o tasks[i]]

\* tasks[:n]
Take(tasks, n) == SubSeq(tasks, 1, IF Len(tasks) < n THEN Len(tasks) ELSE n)

send_poll_to_no_empty_check(chat_id, tasks, thread_id, title_prefix, by) ==
    <<Call("send_poll", chat_id, thread_id, title_prefix, <<>>, Take(tasks, PollMax), by)>>

\* send_poll_to: the gateway calls it makes, in order
send_poll_to(chat_id, tasks, thread_id, title_prefix, by) ==
    IF tasks = <<>>
    THEN <<Call("send_message", chat_id, thread_id, "empty_list", <<>>, <<>>, by)>>
    ELSE <<Call("send_poll", chat_id, thread_id, title_prefix, <<>>, Take(tasks, PollMax), by)>>

send_tasks_reads_default(f, dt, by) ==
    LET cfg == load_config(f, dt)
    IN  IF ~Truthy(cfg.target_chat_id)
        THEN <<Log("send_tasks_skip", by)>>
        ELSE send_poll_to(cfg.target_chat_id, DEFAULT_CFG(dt).tasks, cfg.target_thread_id,
                          "daily", by)

send_tasks_no_chat_check(f, dt, by) ==
    LET cfg == load_config(f, dt)
    IN  send_poll_to(cfg.target_chat_id, cfg.tasks, cfg.target_thread_id, "daily", by)

\* send_tasks up to its await: the log lines and gateway calls it makes
send_tasks(f, dt, by) ==
    LET cfg == load_config(f, dt)
    IN  IF ~Truthy(cfg.target_chat_id)
        THEN <<Log("send_tasks_skip", by)>>
        ELSE send_poll_to(cfg.target_chat_id, cfg.tasks, cfg.target_thread_id, "daily", by)

\* whether send_tasks handed a call to the gateway
Delivers(f, dt) == Truthy(load_config(f, dt).target_chat_id)

send_tasks_except_cancels(js) == <<>>

\* the except clause of send_tasks: prints, and leaves the job queue alone
send_tasks_except(js) == js

(***************************************************************************)
(* Scheduling                                                              *)
(***************************************************************************)
IsDaily(j) == j.name = "daily_tasks"

NotDaily(j) == j.name # "daily_tasks"

\* datetime.time(hour=hh, minute=mm) accepts these, and raises ValueError otherwise
dt_time_ok(hh, mm) == 0 <= hh /\ hh <= 23 /\ 0 <= mm /\ mm <= 59

Armable_ignores_chat(cfg) == cfg.send_time # <<>>

\* the guard of reschedule_jobs: a chat and a send_time are set
Armable(cfg) == Truthy(cfg.target_chat_id) /\ cfg.send_time # <<>>

remove_daily_keeps(js) == js

\* the cleanup loop of reschedule_jobs: job.schedule_removal() of every "daily_tasks" job
remove_daily(js) == SelectSeq(js, NotDaily)

\* reschedule_jobs(app, first_run): the job queue it leaves, whether it raised, what it printed
reschedule_jobs(js, f, dt, first_run) ==
    LET cfg == load_config(f, dt)
        cleaned == remove_daily(js)
        t == ParseHM(cfg.send_time)
    IN  IF ~Armable(cfg)
        THEN [jobs |-> cleaned, raised |-> FALSE, log |-> <<Log("skip_scheduling", "reschedule_jobs")>>]
        ELSE IF ~(t.ok /\ dt_time_ok(t.hh, t.mm))
        THEN [jobs |-> cleaned, raised |-> TRUE, log |-> <<>>]
        ELSE [jobs |-> cleaned
                       \o <<[name |-> "daily_tasks", time |-> <<t.hh, t.mm>>]>>
                       \o (IF first_run /\ cfg.post_on_start
                           THEN <<[name |-> "daily_tasks_first_run", time |-> <<t.hh, t.mm>>]>>
                           ELSE <<>>),
              raised |-> FALSE,
              log |-> <<Log("scheduled", "reschedule_jobs")>>]

MinuteOfDay(hm) == hm[1] * 60 + hm[2]

\* the instants at which the clock of the model stops: the send times the
\* sample arguments can set, and the default
Instants ==
    {MinuteOfDay(<<ParseHM(T0900).hh, ParseHM(T0900).mm>>)} \cup
    {MinuteOfDay(<<ParseHM(a[1]).hh, ParseHM(a[1]).mm>>) :
        a \in {x \in SettimeArgs : x # <<>> /\ ParseHM(x[1]).ok
                                   /\ dt_time_ok(ParseHM(x[1]).hh, ParseHM(x[1]).mm)}}

\* the next instant after n, today or else tomorrow
NextInstant(n) ==
    IF \E i \in Instants : i > n
    THEN CHOOSE i \in Instants : i > n /\ \A k \in Instants : k > n => i <= k
    ELSE CHOOSE i \in Instants : \A k \in Instants : i <= k

DueAt_every_instant(n, j) == IsDaily(j)

\* run_daily: the trigger is due when the clock reaches its time of day
DueAt(n, j) == IsDaily(j) /\ MinuteOfDay(j.time) = n

(***************************************************************************)
(* Initial state: the process has started and main() has not yet armed the *)
(* scheduler.  The file is absent (first run) or holds a record an earlier *)
(* run of the program saved.                                               *)
(***************************************************************************)
RECURSIVE ListsUpTo(_, _)
\* the lists of at most n elements of S
ListsUpTo(S, n) ==
    IF n = 0 THEN {<<>>}
    ELSE ListsUpTo(S, n - 1) \cup {Append(l, x) : l \in ListsUpTo(S, n - 1), x \in S}

\* the texts /addtask can store
TaskTexts == {Strip(Join(a)) : a \in AddtaskArgs} \ {<<>>}

\* f"{hh:02d}:{mm:02d}"
FormatHM(hh, mm) == Format02d(hh) \o <<":">> \o Format02d(mm)

\* the send times /settime can store
SendTimes ==
    {T0900} \cup
    {FormatHM(ParseHM(a[1]).hh, ParseHM(a[1]).mm) :
        a \in {x \in SettimeArgs : x # <<>> /\ ParseHM(x[1]).ok
                                   /\ dt_time_ok(ParseHM(x[1]).hh, ParseHM(x[1]).mm)}}

Destinations == {[chat |-> None, thread |-> None]} \cup Places

SavedFiles ==
    {save_config([tasks |-> l, target_chat_id |-> d.chat, target_thread_id |-> d.thread,
                  send_time |-> t, post_on_start |-> FALSE]) :
        l \in ListsUpTo(TaskTexts, MaxTasks), d \in Destinations, t \in SendTimes}

Init ==
    /\ pc = "boot"
    /\ file \in {Absent} \cup SavedFiles
    /\ default_tasks = <<>>
    /\ jobs = <<>>
    /\ now \in Instants
    /\ pending = {}
    /\ effects = <<>>
    /\ sender = 0
    /\ today = <<>>
    /\ running = {}

(***************************************************************************)
(* main(): reschedule_jobs(application, first_run=False), then polling     *)
(***************************************************************************)
Startup ==
    /\ pc = "boot"
    /\ LET r == reschedule_jobs(jobs, file, default_tasks, FALSE)
       IN  /\ jobs' = r.jobs
           /\ effects' = r.log
           /\ pc' = IF r.raised THEN "crashed" ELSE "polling"
    /\ sender' = 0
    /\ UNCHANGED <<file, default_tasks, now, pending, today, running>>

(***************************************************************************)
(* The timer                                                               *)
(***************************************************************************)
RECURSIVE Repeat(_, _)
Repeat(s, n) == IF n = 0 THEN <<>> ELSE s \o Repeat(s, n - 1)

DueJobs(n) == SelectSeq(jobs, LAMBDA j : DueAt(n, j))

\* time passes to the next instant, at which no trigger is due
TickStep ==
    /\ pc = "polling"
    /\ DueJobs(NextInstant(now)) = <<>>
    /\ now' = NextInstant(now)
    /\ effects' = <<>>
    /\ sender' = 0
    /\ UNCHANGED <<pc, file, default_tasks, jobs, pending, running>>

Tick == TickStep /\ UNCHANGED today

\* the clock reaches the send time of the pending trigger(s): _job_callback runs
\* send_tasks(context, force=True) up to its await
FireStep ==
    /\ pc = "polling"
    /\ DueJobs(NextInstant(now)) # <<>>
    /\ Cardinality(pending) < MaxPending
    /\ now' = NextInstant(now)
    /\ effects' = Repeat(send_tasks(file, default_tasks, "_job_callback"),
                         Len(DueJobs(NextInstant(now))))
    /\ pending' = IF Delivers(file, default_tasks)
                  THEN pending \cup {[by |-> "_job_callback", chat |-> None]}
                  ELSE pending
    /\ sender' = 0
    /\ UNCHANGED <<pc, file, default_tasks, jobs, running>>

Fire == FireStep /\ UNCHANGED today

\* the gateway answers a delivery of send_tasks: it succeeded (ok) or it raised.
\* send_tasks swallows the exception; postnow_cmd then confirms in either case
GatewayReturn(d, ok) ==
    /\ d \in pending
    /\ pending' = pending \ {d}
    /\ IF d.by = "_job_callback"
       THEN /\ effects' = IF ok THEN <<>> ELSE <<Log("send_tasks_error", "send_tasks")>>
            /\ jobs' = IF ok THEN jobs ELSE send_tasks_except(jobs)
       ELSE /\ effects' = (IF ok THEN <<>> ELSE <<Log("send_tasks_error", "send_tasks")>>)
                          \o <<Reply(d, "postnow_done", "postnow_cmd")>>
            /\ jobs' = IF ok THEN jobs ELSE send_tasks_except(jobs)
    /\ sender' = 0
    /\ UNCHANGED <<pc, file, default_tasks, now, today, running>>

(***************************************************************************)
(* Command handlers.  u is the sender, p the place the command came from.  *)
(* No handler reads the sender; the model passes it to the handlers that   *)
(* change the record, and records it when they accept.                     *)
(***************************************************************************)
\* the end of bind_cmd and settime_cmd: re-arm on the saved file f2, then
\* confirm; an exception of reschedule_jobs goes to error_handler instead
RearmAndReply(f2, p, text, by) ==
    LET r == reschedule_jobs(jobs, f2, default_tasks, FALSE)
    IN  /\ jobs' = r.jobs
        /\ effects' = r.log \o (IF r.raised THEN error_handler(p, by) ELSE <<Reply(p, text, by)>>)

BindCmd(u, p) ==
    /\ pc = "polling"
    /\ LET cfg == load_config(file, default_tasks)
           f2 == save_config([cfg EXCEPT !.target_chat_id = p.chat,
                                         !.target_thread_id = p.thread])
       IN  /\ file' = f2
           /\ RearmAndReply(f2, p, "bound", "bind_cmd")
    /\ sender' = u
    /\ UNCHANGED <<pc, default_tasks, now, pending, today, running>>

TimeInRange_inclusive(hh, mm) == 0 <= hh /\ hh <= 24 /\ 0 <= mm /\ mm <= 60

\* assert 0 <= hh < 24 and 0 <= mm < 60
TimeInRange(hh, mm) == 0 <= hh /\ hh < 24 /\ 0 <= mm /\ mm < 60

\* the try block of settime_cmd: whether val is accepted
SettimeAccepts(val) ==
    LET t == ParseHM(val) IN t.ok /\ TimeInRange(t.hh, t.mm)

SettimeCmd_without_rearm(u, p, args) ==
    /\ pc = "polling"
    /\ args # <<>> /\ SettimeAccepts(Strip(args[1]))
    /\ LET t == ParseHM(Strip(args[1]))
           cfg == load_config(file, default_tasks)
       IN  /\ file' = save_config([cfg EXCEPT !.send_time = FormatHM(t.hh, t.mm)])
           /\ effects' = <<Reply(p, "settime_ok", "settime_cmd")>>
    /\ sender' = u
    /\ UNCHANGED <<pc, default_tasks, jobs, now, pending, today, running>>

SettimeCmd(u, p, args) ==
    /\ pc = "polling"
    /\ IF args = <<>>
       THEN /\ effects' = <<Reply(p, "settime_usage", "settime_cmd")>>
            /\ sender' = 0
            /\ UNCHANGED <<file, jobs>>
       ELSE IF ~SettimeAccepts(Strip(args[1]))
       THEN /\ effects' = <<Reply(p, "settime_bad", "settime_cmd")>>
            /\ sender' = 0
            /\ UNCHANGED <<file, jobs>>
       ELSE LET t == ParseHM(Strip(args[1]))
                cfg == load_config(file, default_tasks)
                f2 == save_config([cfg EXCEPT !.send_time = FormatHM(t.hh, t.mm)])
            IN  /\ file' = f2
                /\ RearmAndReply(f2, p, "settime_ok", "settime_cmd")
                /\ sender' = u
    /\ UNCHANGED <<pc, default_tasks, now, pending, today, running>>

AddtaskCmd(u, p, args) ==
    /\ pc = "polling"
    /\ LET text == Strip(Join(args))
           cfg == load_config(file, default_tasks)
           tasks == Append(cfg.tasks, text)
       IN  IF text = <<>>
           THEN /\ effects' = <<Reply(p, "addtask_usage", "addtask_cmd")>>
                /\ sender' = 0
                /\ UNCHANGED <<file, default_tasks>>
           ELSE /\ Len(cfg.tasks) < MaxTasks
                /\ default_tasks' = IF TasksAliased(file) THEN tasks ELSE default_tasks
                /\ file' = save_config([cfg EXCEPT !.tasks = tasks])
                /\ effects' = <<Reply(p, "added", "addtask_cmd")>>
                /\ sender' = u
    /\ UNCHANGED <<pc, jobs, now, pending, today, running>>

ValidIndex_upper_only(idx, tasks) == idx < Len(tasks)

\* 0 <= idx < len(tasks)
ValidIndex(idx, tasks) == 0 <= idx /\ idx < Len(tasks)

ListPop_last(tasks, idx) == SubSeq(tasks, 1, Len(tasks) - 1)

\* tasks.pop(idx): the list without the element at the 0-based idx, a negative
\* idx counting from the end (outside -len..len-1 pop raises IndexError, which
\* the range check of deltask_cmd excludes: the list is then returned as it is)
ListPop(tasks, idx) ==
    LET i == (IF idx < 0 THEN idx + Len(tasks) ELSE idx) + 1
    IN  IF i < 1 \/ i > Len(tasks) THEN tasks
        ELSE SubSeq(tasks, 1, i - 1) \o SubSeq(tasks, i + 1, Len(tasks))

DeltaskCmd(u, p, args) ==
    /\ pc = "polling"
    /\ IF args = <<>>
       THEN /\ effects' = <<Reply(p, "deltask_usage", "deltask_cmd")>>
            /\ sender' = 0
            /\ UNCHANGED <<file, default_tasks>>
       ELSE IF ~PyInt(args[1]).ok
       THEN /\ effects' = <<Reply(p, "deltask_not_a_number", "deltask_cmd")>>
            /\ sender' = 0
            /\ UNCHANGED <<file, default_tasks>>
       ELSE LET idx == PyInt(args[1]).val - 1
                cfg == load_config(file, default_tasks)
                tasks == ListPop(cfg.tasks, idx)
            IN  IF ~ValidIndex(idx, cfg.tasks)
                THEN /\ effects' = <<Reply(p, "deltask_no_such_task", "deltask_cmd")>>
                     /\ sender' = 0
                     /\ UNCHANGED <<file, default_tasks>>
                ELSE /\ default_tasks' = IF TasksAliased(file) THEN tasks ELSE default_tasks
                     /\ file' = save_config([cfg EXCEPT !.tasks = tasks])
                     /\ effects' = <<Reply(p, "deleted", "deltask_cmd")>>
                     /\ sender' = u
    /\ UNCHANGED <<pc, jobs, now, pending, today, running>>

CleartasksCmd(u, p) ==
    /\ pc = "polling"
    /\ file' = save_config([load_config(file, default_tasks) EXCEPT !.tasks = <<>>])
    /\ effects' = <<Reply(p, "cleared", "cleartasks_cmd")>>
    /\ sender' = u
    /\ UNCHANGED <<pc, default_tasks, jobs, now, pending, today, running>>

ListtasksCmd(p) ==
    /\ pc = "polling"
    /\ LET tasks == load_config(file, default_tasks).tasks
       IN  effects' = IF tasks = <<>>
                      THEN <<Reply(p, "empty_list", "listtasks_cmd")>>
                      ELSE <<Call("send_message", p.chat, None, "list", format_tasks(tasks),
                                  <<>>, "listtasks_cmd")>>
    /\ sender' = 0
    /\ UNCHANGED <<pc, file, default_tasks, jobs, now, pending, today, running>>

PreviewCmd_to_destination(p, ok) ==
    /\ pc = "polling"
    /\ effects' = LET cfg == load_config(file, default_tasks)
                  IN  send_poll_to(cfg.target_chat_id, cfg.tasks, cfg.target_thread_id,
                                   "preview", "preview_cmd")
                      \o (IF ok THEN <<>> ELSE error_handler(p, "preview_cmd"))
    /\ sender' = 0
    /\ UNCHANGED <<pc, file, default_tasks, jobs, now, pending, today, running>>

\* preview_cmd awaits nothing but its one send: ok is the gateway's answer, and an
\* exception goes to error_handler
PreviewCmd(p, ok) ==
    /\ pc = "polling"
    /\ effects' = send_poll_to(p.chat, load_config(file, default_tasks).tasks, p.thread,
                               "preview", "preview_cmd")
                  \o (IF ok THEN <<>> ELSE error_handler(p, "preview_cmd"))
    /\ sender' = 0
    /\ UNCHANGED <<pc, file, default_tasks, jobs, now, pending, today, running>>

PostnowCmd(p) ==
    /\ pc = "polling"
    /\ Cardinality(pending) < MaxPending
    /\ IF Delivers(file, default_tasks)
       THEN /\ effects' = send_tasks(file, default_tasks, "postnow_cmd")
            /\ pending' = pending \cup {[by |-> "postnow_cmd", chat |-> p.chat]}
       ELSE /\ effects' = send_tasks(file, default_tasks, "postnow_cmd")
                          \o <<Reply(p, "postnow_done", "postnow_cmd")>>
            /\ pending' = pending
    /\ sender' = 0
    /\ UNCHANGED <<pc, file, default_tasks, jobs, now, today, running>>

StartCmd(p) ==
    /\ pc = "polling"
    /\ effects' = <<Reply(p, "help", "start_cmd")>>
    /\ sender' = 0
    /\ UNCHANGED <<pc, file, default_tasks, jobs, now, pending, today, running>>

WhereamiCmd(p) ==
    /\ pc = "polling"
    /\ effects' = <<Call("send_message", p.chat, None, "whereami", <<>>, <<p.chat, p.thread>>,
                         "whereami_cmd")>>
    /\ sender' = 0
    /\ UNCHANGED <<pc, file, default_tasks, jobs, now, pending, today, running>>

\* where the sampled commands come from: /bind, /preview and /whereami from
\* either place, the others from the private chat
Next ==
    \/ Startup
    \/ Tick
    \/ Fire
    \/ \E d \in pending, ok \in BOOLEAN : GatewayReturn(d, ok)
    \/ \E u \in Users, p \in Places : BindCmd(u, p)
    \/ \E u \in Users, a \in SettimeArgs : SettimeCmd(u, Direct, a)
    \/ \E u \in Users, a \in AddtaskArgs : AddtaskCmd(u, Direct, a)
    \/ \E u \in Users, a \in DeltaskArgs : DeltaskCmd(u, Direct, a)
    \/ \E u \in Users : CleartasksCmd(u, Direct)
    \/ ListtasksCmd(Direct)
    \/ \E p \in Places, ok \in BOOLEAN : PreviewCmd(p, ok)
    \/ PostnowCmd(Direct)
    \/ StartCmd(Direct)
    \/ \E p \in Places : WhereamiCmd(p)

Spec == Init /\ [][Next]_vars

(***************************************************************************)
(* What the claims read: the persisted record, the pending triggers, the   *)
(* calls of the last step.                                                 *)
(***************************************************************************)
Stored(k, dflt) == IF file.st = "ok" /\ k \in DOMAIN file.doc THEN file.doc[k] ELSE dflt

StoredChat == Stored("target_chat_id", None)

StoredThread == Stored("target_thread_id", None)

StoredTime == Stored("send_time", T0900)

StoredTasks == Stored("tasks", <<>>)

DailyJobs == SelectSeq(jobs, IsDaily)

\* a string of the form HH:MM, two digits each, hour 0-23, minute 0-59
IsHHMM(s) ==
    /\ Len(s) = 5
    /\ s[3] = ":"
    /\ \A i \in {1, 2, 4, 5} : IsDigit(s[i])
    /\ 10 * DigitVal(s[1]) + DigitVal(s[2]) <= 23
    /\ 10 * DigitVal(s[4]) + DigitVal(s[5]) <= 59

\* the hour and minute an HH:MM string names
HMOf(s) == <<10 * DigitVal(s[1]) + DigitVal(s[2]), 10 * DigitVal(s[4]) + DigitVal(s[5])>>

\* the coroutine that issued the last effect of e ("": there is none)
LastBy(e) == IF e = <<>> THEN "" ELSE e[Len(e)].by

HasReply(text) == \E i \in 1..Len(effects) : effects[i].api = "send_message" /\ effects[i].text = text

\* C1 (idempotent rearm): once main() has armed the scheduler, whenever the
\* persisted record is armable (a chat and a send time are set) the job queue
\* holds exactly one "daily_tasks" trigger, however many times reschedule_jobs
\* ran; and no call of reschedule_jobs raised (the process did not crash at
\* start-up, no command ended in error_handler).
C1_IdempotentRearm ==
    /\ pc # "crashed"
    /\ ~HasReply("error") \/ (\E i \in 1..Len(effects) : effects[i].by = "preview_cmd")
    /\ (pc = "polling" /\ Truthy(StoredChat) /\ StoredTime # <<>>) => Len(DailyJobs) = 1

\* a command re-armed an armed scheduler: the second call of reschedule_jobs at least
C1_Witness ==
    /\ pc = "polling"
    /\ HasReply("settime_ok")
    /\ Len(DailyJobs) = 1
    /\ Len(jobs) = 1

\* C2 (dormant to armed): while the persisted target_chat_id is null no daily
\* trigger is pending and the timer never runs the delivery; a /bind leaves
\* exactly one trigger, at the persisted send_time.
C2_DormantToArmed ==
    /\ []((pc = "polling" /\ ~Truthy(StoredChat)) => DailyJobs = <<>>)
    /\ [][(now' # now /\ Fire) => Truthy(StoredChat)]_vars
    /\ [][(LastBy(effects') \in {"bind_cmd", "error_handler"}
            /\ \E u \in Users, p \in Places : BindCmd(u, p))
            => /\ StoredChat' # None
               /\ Len(SelectSeq(jobs', IsDaily)) = 1
               /\ SelectSeq(jobs', IsDaily)[1].time = HMOf(StoredTime')]_vars

\* /bind has just armed the scheduler
C2_Witness ==
    /\ HasReply("bound")
    /\ sender # 0
    /\ Truthy(StoredChat)
    /\ Len(DailyJobs) = 1

\* the calls a delivery of the persisted record to its destination makes
FreshDelivery(by) ==
    IF StoredTasks = <<>>
    THEN <<Call("send_message", StoredChat, StoredThread, "empty_list", <<>>, <<>>, by)>>
    ELSE <<Call("send_poll", StoredChat, StoredThread, "daily", <<>>,
                IF Len(StoredTasks) <= PollMax THEN StoredTasks
                ELSE SubSeq(StoredTasks, 1, PollMax), by)>>

\* C3 (fresh read on fire): what a timer-driven delivery sends, and where, is
\* the render of the record as persisted when the trigger fires, whatever
\* addtask, deltask, cleartasks and bind did since the trigger was armed.
C3_FreshReadOnFire ==
    [][(now' # now /\ Fire) => effects' = FreshDelivery("_job_callback")]_vars

\* the timer delivered, into a forum topic, a list that was edited after its
\* first save (it is no longer the list the first /addtask of this run stored)
C3_Witness ==
    /\ Len(effects) = 1
    /\ effects[1].by = "_job_callback"
    /\ effects[1].api = "send_poll"
    /\ effects[1].options = StoredTasks
    /\ default_tasks # <<>>
    /\ StoredTasks # default_tasks
    /\ effects[1].thread # None

\* C4 (a failed delivery keeps the cadence): when the gateway raises in a
\* timer-driven send_tasks, the error is printed, neither the record nor the
\* job queue changes, and the "daily_tasks" trigger is still pending.
C4_FailureKeepsCadence ==
    [][\A d \in pending :
          (d.by = "_job_callback" /\ GatewayReturn(d, FALSE))
          => /\ effects' = <<Log("send_tasks_error", "send_tasks")>>
             /\ UNCHANGED <<pc, file, default_tasks, jobs, now>>
             /\ Len(SelectSeq(jobs', IsDaily)) = 1
             /\ MinuteOfDay(SelectSeq(jobs', IsDaily)[1].time) \in Instants]_vars

\* a timer-driven delivery has just failed
C4_Witness ==
    /\ effects = <<Log("send_tasks_error", "send_tasks")>>
    /\ Len(DailyJobs) = 1
    /\ pc = "polling"

\* one or two digits that name a number up to max: "9", "09"
IsNumeralUpTo(x, max) ==
    /\ Len(x) \in {1, 2}
    /\ \A i \in 1..Len(x) : IsDigit(x[i])
    /\ DigitsValue(x) <= max

\* an argument list whose first word names an hour 0-23 and a minute 0-59
NamesTime(args) ==
    /\ args # <<>>
    /\ \E i \in 1..Len(args[1]) :
          /\ args[1][i] = ":"
          /\ IsNumeralUpTo(SubSeq(args[1], 1, i - 1), 23)
          /\ IsNumeralUpTo(SubSeq(args[1], i + 1, Len(args[1])), 59)

InvalidSettimeArgs == {a \in SettimeArgs : ~NamesTime(a)}

IsBlank(args) == \A i \in 1..Len(args) : \A k \in 1..Len(args[i]) : args[i][k] = " "

\* a /deltask argument list that names no task of the persisted list: missing,
\* not a number, or a 1-based index below 1 or above the length
NamesNoTask(args) ==
    \/ args = <<>>
    \/ ~PyInt(args[1]).ok
    \/ PyInt(args[1]).val < 1
    \/ PyInt(args[1]).val > Len(StoredTasks)

\* C6 (task validation errors leave the state unchanged): /addtask with no
\* text and /deltask with a missing, non-numeric or out-of-range index save
\* nothing, leave the record (and DEFAULT_CFG) as they were and answer with a
\* corrective message only.  (Every step is either such a clean refusal or
\* no /addtask, /deltask with an invalid argument.)
C6_TaskValidationNoChange ==
    [][/\ LastBy(effects') = "addtask_cmd" =>
          \/ /\ UNCHANGED <<pc, file, default_tasks, jobs, now, pending>>
             /\ effects' = <<Reply(Direct, "addtask_usage", "addtask_cmd")>>
          \/ \A a \in AddtaskArgs, u \in Users : ~(IsBlank(a) /\ AddtaskCmd(u, Direct, a))
       /\ LastBy(effects') = "deltask_cmd" =>
          \/ /\ UNCHANGED <<pc, file, default_tasks, jobs, now, pending>>
             /\ Len(effects') = 1
             /\ effects'[1].api = "send_message"
             /\ effects'[1].text \in {"deltask_usage", "deltask_not_a_number",
                                      "deltask_no_such_task"}
          \/ \A a \in DeltaskArgs, u \in Users :
                ~(NamesNoTask(a) /\ DeltaskCmd(u, Direct, a))]_vars

\* /deltask has just refused an index on a non-empty list
C6_Witness ==
    /\ effects = <<Reply(Direct, "deltask_no_such_task", "deltask_cmd")>>
    /\ Len(StoredTasks) = MaxTasks

\* a step in which user v issues one of the commands that change the record
MutatingCommandBy(v) ==
    \/ \E p \in Places : BindCmd(v, p)
    \/ \E a \in SettimeArgs : SettimeCmd(v, Direct, a)
    \/ \E a \in AddtaskArgs : AddtaskCmd(v, Direct, a)
    \/ \E a \in DeltaskArgs : DeltaskCmd(v, Direct, a)
    \/ CleartasksCmd(v, Direct)

\* C7 (ownership gate): after a mutating command of user U was accepted (U is
\* then the owner), a mutating command of another user V is rejected: it
\* leaves the persisted record and the scheduler unchanged.
C7_OwnershipGate ==
    [][\A v \in Users :
          (sender # 0 /\ v # sender /\ MutatingCommandBy(v)) => UNCHANGED <<file, jobs>>]_vars

(***************************************************************************)
(* Long task lists: the program starts on a file an earlier run saved with *)
(* up to MaxLong tasks (more than one poll holds), and delivers it.        *)
(***************************************************************************)
\* n distinct task texts: t1, t2, ...
LongList(n) == [i \in 1..n |-> <<"t">> \o NatStr(i)]

LongFiles ==
    {save_config([tasks |-> LongList(n), target_chat_id |-> d.chat,
                  target_thread_id |-> d.thread, send_time |-> t, post_on_start |-> FALSE]) :
        n \in 0..MaxLong, d \in Destinations, t \in SendTimes}

InitLong ==
    /\ pc = "boot"
    /\ file \in LongFiles
    /\ default_tasks = <<>>
    /\ jobs = <<>>
    /\ now \in Instants
    /\ pending = {}
    /\ effects = <<>>
    /\ sender = 0
    /\ today = <<>>
    /\ running = {}

NextLong ==
    \/ Startup
    \/ Tick
    \/ Fire
    \/ \E d \in pending, ok \in BOOLEAN : GatewayReturn(d, ok)
    \/ \E u \in Users, p \in Places : BindCmd(u, p)
    \/ \E u \in Users : CleartasksCmd(u, Direct)
    \/ ListtasksCmd(Direct)
    \/ \E p \in Places, ok \in BOOLEAN : PreviewCmd(p, ok)
    \/ PostnowCmd(Direct)

SpecLong == InitLong /\ [][NextLong]_vars

\* the gateway calls of a delivery (by the timer, /postnow or /preview) among e
IsDeliveryCall(c) ==
    /\ c.api \in {"send_message", "send_poll"}
    /\ c.by \in {"_job_callback", "postnow_cmd", "preview_cmd"}
    /\ c.text \in {"empty_list", "daily", "preview"}

DeliveryCalls(e) == SelectSeq(e, IsDeliveryCall)

IsPoll(c) == c.api = "send_poll"

RECURSIVE ConcatOptions(_)
ConcatOptions(polls) ==
    IF polls = <<>> THEN <<>> ELSE polls[1].options \o ConcatOptions(Tail(polls))

\* C8 (chunking): a delivery of N >= 1 tasks sends ceil(N/10) polls of at most
\* 10 options each, whose options in send order are the task list.
C8_Chunking ==
    (DeliveryCalls(effects) # <<>> /\ Len(StoredTasks) >= 1)
    => LET polls == SelectSeq(DeliveryCalls(effects), IsPoll)
       IN  /\ Len(polls) = (Len(StoredTasks) + PollMax - 1) \div PollMax
           /\ \A i \in 1..Len(polls) : Len(polls[i].options) <= PollMax
           /\ ConcatOptions(polls) = StoredTasks

\* a step that delivers: the timer or /postnow with a destination set, or /preview
DeliveryStep ==
    \/ now' # now /\ Truthy(StoredChat) /\ Fire
    \/ Truthy(StoredChat) /\ PostnowCmd(Direct)
    \/ \E p \in Places, ok \in BOOLEAN : PreviewCmd(p, ok)

\* C9 (an empty list never produces a poll): a delivery of an empty task list
\* (by the timer, /postnow or /preview) sends exactly one text message and no
\* poll; and no poll is ever sent without options.
C9_EmptyListNoPoll ==
    /\ [](\A i \in 1..Len(effects) : IsPoll(effects[i]) => effects[i].options # <<>>)
    /\ [][(StoredTasks = <<>> /\ DeliveryStep)
            => /\ Len(DeliveryCalls(effects')) = 1
               /\ DeliveryCalls(effects')[1].api = "send_message"
               /\ \A i \in 1..Len(effects') : ~IsPoll(effects'[i])]_vars

\* the timer has just delivered an empty list: one text message
C9_Witness ==
    /\ StoredTasks = <<>>
    /\ Len(effects) = 1
    /\ effects[1].by = "_job_callback"
    /\ effects[1].api = "send_message"
    /\ effects[1].text = "empty_list"

\* a step of a handler that calls reschedule_jobs
RearmStep ==
    \/ Startup
    \/ \E u \in Users, p \in Places : BindCmd(u, p)
    \/ \E u \in Users, a \in SettimeArgs : SettimeCmd(u, Direct, a)

\* C10 (the schedule follows the configuration): once main() has armed the
\* scheduler, in every state a daily trigger is pending iff target_chat_id is
\* set, there is at most one, and its time is the persisted send_time; only
\* start-up, /bind and /settime change the job queue, the persisted chat or
\* the persisted send_time.
C10_ScheduleFollowsConfig ==
    /\ [](pc = "polling"
          => /\ Len(jobs) = Len(DailyJobs)
             /\ Len(DailyJobs) <= 1
             /\ Len(DailyJobs) = 1 <=> Truthy(StoredChat)
             /\ Len(DailyJobs) = 1 => DailyJobs[1].time = HMOf(StoredTime))
    /\ [][(jobs' # jobs \/ StoredChat' # StoredChat \/ StoredTime' # StoredTime)
            => RearmStep]_vars

\* /settime has just moved the trigger of a bound chat to a new time
C10_Witness ==
    /\ pc = "polling"
    /\ HasReply("settime_ok")
    /\ Truthy(StoredChat)
    /\ StoredTime # T0900
    /\ Len(DailyJobs) = 1
    /\ DailyJobs[1].time = HMOf(StoredTime)

(***************************************************************************)
(* Storage faults.  save_config opens CONFIG_PATH with mode "w" (which     *)
(* truncates the file) and then writes the JSON text into it: the open can *)
(* raise (the file is as it was), the write can raise after the open (the  *)
(* file holds a prefix of the text), and the process can die in between.   *)
(* The file can also be removed from outside, and a start can find a file  *)
(* that is not JSON or whose send_time was edited by hand.                 *)
(***************************************************************************)
\* a file whose content json.load rejects: empty, or a prefix of a JSON text
Corrupt == [st |-> "corrupt", doc |-> [tasks |-> <<>>]]

\* the file after a save_config that raised: partial tells whether open("w") had succeeded
save_config_raises(f, partial) == IF partial THEN Corrupt ELSE f

\* a handler whose save_config raises: the exception leaves the handler before
\* reschedule_jobs and before the confirmation, and error_handler reports it;
\* dt is DEFAULT_CFG["tasks"] as the handler left it before the save
SaveRaises(p, by, dt, partial) ==
    /\ pc = "polling"
    /\ file' = save_config_raises(file, partial)
    /\ default_tasks' = dt
    /\ effects' = error_handler(p, by)
    /\ sender' = 0
    /\ UNCHANGED <<pc, jobs, now, pending, today, running>>

BindCmdSaveRaises(u, p, partial) ==
    /\ p \in Places
    /\ SaveRaises(p, "bind_cmd", default_tasks, partial)

SettimeCmdSaveRaises(u, p, args, partial) ==
    /\ args # <<>> /\ SettimeAccepts(Strip(args[1]))
    /\ SaveRaises(p, "settime_cmd", default_tasks, partial)

\* tasks.append(text) has run on the list load_config returned
AddtaskCmdSaveRaises(u, p, args, partial) ==
    LET text == Strip(Join(args))
        cfg == load_config(file, default_tasks)
    IN  /\ text # <<>>
        /\ Len(cfg.tasks) < MaxTasks
        /\ SaveRaises(p, "addtask_cmd",
                      IF TasksAliased(file) THEN Append(cfg.tasks, text) ELSE default_tasks,
                      partial)

\* tasks.pop(idx) has run on the list load_config returned
DeltaskCmdSaveRaises(u, p, args, partial) ==
    /\ args # <<>> /\ PyInt(args[1]).ok
    /\ LET idx == PyInt(args[1]).val - 1
           cfg == load_config(file, default_tasks)
       IN  /\ ValidIndex(idx, cfg.tasks)
           /\ SaveRaises(p, "deltask_cmd",
                         IF TasksAliased(file) THEN ListPop(cfg.tasks, idx) ELSE default_tasks,
                         partial)

CleartasksCmdSaveRaises(u, p, partial) ==
    /\ p \in Places
    /\ SaveRaises(p, "cleartasks_cmd", default_tasks, partial)

\* the process dies inside save_config, after open("w") and before the text is
\* complete, and is started again: main() runs from its beginning
CrashInSave ==
    /\ pc = "polling"
    /\ file' = save_config_raises(file, TRUE)
    /\ pc' = "boot"
    /\ default_tasks' = <<>>
    /\ jobs' = <<>>
    /\ pending' = {}
    /\ effects' = <<>>
    /\ sender' = 0
    /\ UNCHANGED <<now, today, running>>

\* the file is removed from outside: os.path.exists(CONFIG_PATH) is false afterwards
RemoveFile ==
    /\ file.st # "absent"
    /\ file' = Absent
    /\ effects' = <<>>
    /\ sender' = 0
    /\ UNCHANGED <<pc, default_tasks, jobs, now, pending, today, running>>

\* send_time values only an edit of the file by hand can store
BadTimes == { <<"9", "a", "m">>, <<"2", "5", ":", "0", "0">> }

FaultFiles ==
    {Absent, Corrupt} \cup
    {save_config([tasks |-> l, target_chat_id |-> d.chat, target_thread_id |-> d.thread,
                  send_time |-> t, post_on_start |-> FALSE]) :
        l \in ListsUpTo({TaskA}, MaxTasks - 1), d \in Destinations, t \in {T0900} \cup BadTimes}

InitFault ==
    /\ pc = "boot"
    /\ file \in FaultFiles
    /\ default_tasks = <<>>
    /\ jobs = <<>>
    /\ now \in Instants
    /\ pending = {}
    /\ effects = <<>>
    /\ sender = 0
    /\ today = <<>>
    /\ running = {}

\* the arguments the commands are sampled with under faults
FaultSettimeArgs == { << <<"9", ":", "5">> >>, << <<"2", "5", ":", "0", "0">> >> }

FaultAddtaskArgs == { <<>>, <<TaskA>> }

FaultDeltaskArgs == { << <<"1">> >>, << <<"9">> >> }

NextFault ==
    \/ Startup
    \/ Tick
    \/ Fire
    \/ \E d \in pending, ok \in BOOLEAN : GatewayReturn(d, ok)
    \/ \E p \in Places : BindCmd(1, p)
    \/ \E a \in FaultSettimeArgs : SettimeCmd(1, Direct, a)
    \/ \E a \in FaultAddtaskArgs : AddtaskCmd(1, Direct, a)
    \/ \E a \in FaultDeltaskArgs : DeltaskCmd(1, Direct, a)
    \/ CleartasksCmd(1, Direct)
    \/ ListtasksCmd(Direct)
    \/ PostnowCmd(Direct)
    \/ \E p \in Places, partial \in BOOLEAN : BindCmdSaveRaises(1, p, partial)
    \/ \E a \in FaultSettimeArgs, partial \in BOOLEAN : SettimeCmdSaveRaises(1, Direct, a, partial)
    \/ \E a \in FaultAddtaskArgs, partial \in BOOLEAN : AddtaskCmdSaveRaises(1, Direct, a, partial)
    \/ \E a \in FaultDeltaskArgs, partial \in BOOLEAN : DeltaskCmdSaveRaises(1, Direct, a, partial)
    \/ \E partial \in BOOLEAN : CleartasksCmdSaveRaises(1, Direct, partial)
    \/ CrashInSave
    \/ RemoveFile

SpecFault == InitFault /\ [][NextFault]_vars

\* a step in which save_config raises inside a mutating command
SaveRaisesStep ==
    \/ \E p \in Places, partial \in BOOLEAN : BindCmdSaveRaises(1, p, partial)
    \/ \E a \in FaultSettimeArgs, partial \in BOOLEAN : SettimeCmdSaveRaises(1, Direct, a, partial)
    \/ \E a \in FaultAddtaskArgs, partial \in BOOLEAN : AddtaskCmdSaveRaises(1, Direct, a, partial)
    \/ \E a \in FaultDeltaskArgs, partial \in BOOLEAN : DeltaskCmdSaveRaises(1, Direct, a, partial)
    \/ \E partial \in BOOLEAN : CleartasksCmdSaveRaises(1, Direct, partial)

\* C11 (atomic save): whatever happens to a save_config (it completes, it
\* raises, the process dies in it), the file afterwards is the complete old
\* record or a complete new one: a step of the program that changes the file
\* leaves a file load_config can read in full.
C11_AtomicSave ==
    [][(file' # file /\ ~RemoveFile) => file'.st = "ok"]_vars

\* the record load_config returns
Loaded == load_config(file, default_tasks)

\* C12 (load degrades to defaults): whenever the storage is absent or
\* corrupt, load_config() returns the default record (no tasks, no
\* destination, send_time 09:00), whatever ran earlier in the process.
C12_LoadDegradesToDefaults ==
    file.st \in {"absent", "corrupt"} => Loaded = DEFAULT_CFG(<<>>)

\* C13 (a failed save is not committed): when save_config raises inside a
\* mutating command the failure is reported to the chat, the next
\* load_config() returns the record as it was before the command, and the
\* job queue is unchanged.
C13_FailedSaveNotCommitted ==
    [][SaveRaisesStep
        => /\ \E i \in 1..Len(effects') : effects'[i].api = "send_message" /\ effects'[i].text = "error"
           /\ load_config(file', default_tasks') = Loaded
           /\ jobs' = jobs]_vars

\* a text that names an hour 0-23 and a minute 0-59
NamesHM(t) ==
    \E i \in 1..Len(t) :
        /\ t[i] = ":"
        /\ IsNumeralUpTo(SubSeq(t, 1, i - 1), 23)
        /\ IsNumeralUpTo(SubSeq(t, i + 1, Len(t)), 59)

\* C16 (an unparseable send_time means Dormant): when the persisted send_time
\* does not name a time, reschedule_jobs returns without raising and leaves
\* no daily trigger pending, both in main() and in bind_cmd: main() goes on
\* to polling, and bind_cmd ends with its confirmation, not in error_handler.
C16_UnparseableMeansDormant ==
    [][((Startup \/ \E p \in Places : BindCmd(1, p)) /\ ~NamesHM(StoredTime'))
        => /\ pc' = "polling"
           /\ LastBy(effects') # "error_handler"
           /\ SelectSeq(jobs', IsDaily) = <<>>]_vars

\* a step that runs send_tasks: the timer's callback, or /postnow
SendTasksStep == (now' # now /\ Fire) \/ PostnowCmd(Direct)

\* C17 (a delivery with no destination is a silent no-op): send_tasks with no
\* target_chat_id persisted (or none readable), run by the timer or by
\* /postnow, hands nothing to the gateway, raises nothing, and leaves the
\* file, the job queue and the deliveries in flight as they were.
C17_NoDestinationNoOp ==
    [][(~Truthy(StoredChat) /\ SendTasksStep)
        => /\ DeliveryCalls(effects') = <<>>
           /\ \A i \in 1..Len(effects') : ~IsPoll(effects'[i]) /\ effects'[i].by # "error_handler"
           /\ effects'[1] \in {Log("send_tasks_skip", "_job_callback"),
                               Log("send_tasks_skip", "postnow_cmd")}
           /\ UNCHANGED <<pc, file, default_tasks, jobs, pending>>]_vars

\* the timer has just run send_tasks with a trigger pending and no destination
\* readable: the file was lost after the scheduler was armed
C17_Witness ==
    /\ effects = <<Log("send_tasks_skip", "_job_callback")>>
    /\ ~Truthy(StoredChat)
    /\ Len(DailyJobs) = 1

(***************************************************************************)
(* Calendar days.  The clock of the model passes the instants of a day in  *)
(* order and then returns to the first one: that step crosses midnight.    *)
(* `today` records the minutes at which the timer ran the delivery since   *)
(* midnight, the time of the trigger that was pending at midnight (-1:     *)
(* none, or the process started later), and whether the trigger still had  *)
(* that time at every instant the clock has passed since.                  *)
(***************************************************************************)
\* the time of day of the pending daily trigger (-1: none)
TriggerTime == IF DailyJobs = <<>> THEN 0 - 1 ELSE MinuteOfDay(DailyJobs[1].time)

\* the step of the clock to its next instant crosses midnight
CrossesMidnight == now' <= now

\* `today` after the clock stepped to the next instant, at which the timer
\* ran the delivery n times
DayAfter(n) ==
    LET base == IF CrossesMidnight
                THEN [fired |-> <<>>, armed_at |-> TriggerTime, steady |-> TriggerTime >= 0]
                ELSE today
    IN  [fired |-> base.fired \o Repeat(<<now'>>, n),
         armed_at |-> base.armed_at,
         steady |-> base.steady /\ TriggerTime = base.armed_at]

DayTick == TickStep /\ today' = DayAfter(0)

DayFire == FireStep /\ today' = DayAfter(Len(DueJobs(now')))

DayFiles ==
    {Absent} \cup
    {save_config([tasks |-> <<>>, target_chat_id |-> d.chat, target_thread_id |-> d.thread,
                  send_time |-> t, post_on_start |-> FALSE]) :
        d \in Destinations, t \in SendTimes}

InitDay ==
    /\ pc = "boot"
    /\ file \in DayFiles
    /\ default_tasks = <<>>
    /\ jobs = <<>>
    /\ now \in Instants
    /\ pending = {}
    /\ effects = <<>>
    /\ sender = 0
    /\ today = [fired |-> <<>>, armed_at |-> 0 - 1, steady |-> FALSE]
    /\ running = {}

NextDay ==
    \/ Startup
    \/ DayTick
    \/ DayFire
    \/ \E d \in pending, ok \in BOOLEAN : GatewayReturn(d, ok)
    \/ \E p \in Places : BindCmd(1, p)
    \/ \E a \in SettimeArgs : SettimeCmd(1, Direct, a)
    \/ PostnowCmd(Direct)

SpecDay == InitDay /\ [][NextDay]_vars

\* C14 as stated (once-daily delivery): in no calendar day does the timer run
\* the delivery twice, and a day at whose midnight the scheduler was Armed
\* ends with exactly one timer-driven delivery, whatever /settime and /bind
\* did before or after that day's firing.
C14_OnceDaily ==
    /\ [](Len(today.fired) <= 1)
    /\ [][(now' # now /\ CrossesMidnight /\ today.armed_at >= 0) => Len(today.fired) = 1]_vars

\* C14 as amended (once at every occurrence of send_time): in a calendar day
\* at whose midnight the scheduler was Armed and through which the trigger
\* kept its time, the timer has run the delivery exactly once as soon as
\* send_time has passed, at send_time, and not before; and on any day the
\* timer runs the delivery at most once at the same minute, at the persisted
\* send_time, for a bound chat.
C14_OncePerOccurrence ==
    /\ [](today.steady
          => today.fired = IF today.armed_at <= now THEN <<today.armed_at>> ELSE <<>>)
    /\ [](\A i, j \in 1..Len(today.fired) : today.fired[i] = today.fired[j] => i = j)
    /\ [][(now' # now /\ DayFire)
            => /\ Truthy(StoredChat)
               /\ now' = MinuteOfDay(HMOf(StoredTime))
               /\ Len(today'.fired) = Len(DayAfter(0).fired) + 1]_vars

\* a whole day went by Armed with the same send_time, with a /bind re-arm
\* after the firing, and the timer delivered once
C14_Witness ==
    /\ today.steady
    /\ today.armed_at = now
    /\ today.fired = <<now>>
    /\ HasReply("bound")
    /\ \A i \in Instants : i <= now

(***************************************************************************)
(* The text of the file.  A Python dict is a sequence of [k, v] entries in *)
(* insertion order with distinct keys; a value is tagged: null, a number,  *)
(* a string, a boolean or a list of strings.  The file is the sequence of  *)
(* JSON tokens json.dump writes, each [tok, v] with v a tuple of strings.  *)
(* Here pc tells who wrote the file last: "edited" (by hand), "saved"      *)
(* (a handler's load, assignment and save), "resaved" (a save of what load *)
(* returned).                                                              *)
(***************************************************************************)
JNull == [t |-> "null", v |-> <<>>]

JNum(n) == [t |-> "num", v |-> <<n>>]

JStr(c) == [t |-> "str", v |-> c]

JBool(b) == [t |-> "bool", v |-> <<b>>]

JList(l) == [t |-> "list", v |-> l]

Tok(kind, v) == [tok |-> kind, v |-> v]

\* str(n) of an integer
IntStr(n) == IF n < 0 THEN <<"-">> \o NatStr(0 - n) ELSE NatStr(n)

RECURSIVE Separated(_)
\* the token groups, with a comma between every two
Separated(groups) ==
    IF groups = <<>> THEN <<>>
    ELSE IF Len(groups) = 1 THEN groups[1]
    ELSE groups[1] \o <<Tok(",", <<>>)>> \o Separated(Tail(groups))

\* the tokens json.dump writes for a value
json_value(x) ==
    IF x.t = "null" THEN <<Tok("null", <<>>)>>
    ELSE IF x.t = "num" THEN <<Tok("num", IntStr(x.v[1]))>>
    ELSE IF x.t = "bool" THEN <<Tok(IF x.v[1] THEN "true" ELSE "false", <<>>)>>
    ELSE IF x.t = "str" THEN <<Tok("str", x.v)>>
    ELSE <<Tok("[", <<>>)>>
         \o Separated([i \in 1..Len(x.v) |-> <<Tok("str", x.v[i])>>])
         \o <<Tok("]", <<>>)>>

\* json.dump(cfg, f): the members in the dict's order
json_dump(d) ==
    <<Tok("{", <<>>)>>
    \o Separated([i \in 1..Len(d) |->
                    <<Tok("key", <<d[i].k>>), Tok(":", <<>>)>> \o json_value(d[i].v)])
    \o <<Tok("}", <<>>)>>

\* d[k] = x: an existing key keeps its place, a new key goes last
DictSet(d, k, x) ==
    IF \E i \in 1..Len(d) : d[i].k = k
    THEN [i \in 1..Len(d) |-> IF d[i].k = k THEN [k |-> k, v |-> x] ELSE d[i]]
    ELSE Append(d, [k |-> k, v |-> x])

RECURSIVE DictUpdate(_, _)
\* d.update(e)
DictUpdate(d, e) ==
    IF e = <<>> THEN d ELSE DictUpdate(DictSet(d, e[1].k, e[1].v), Tail(e))

IsStrTok(t) == t.tok = "str"

\* the value a scalar token stands for
TokenValue(t) ==
    IF t.tok = "null" THEN JNull
    ELSE IF t.tok = "num" THEN JNum(PyInt(t.v).val)
    ELSE IF t.tok = "true" THEN JBool(TRUE)
    ELSE IF t.tok = "false" THEN JBool(FALSE)
    ELSE JStr(t.v)

RECURSIVE ParseMembers(_, _, _)
\* the members of an object from token i on, added to the dict acc
ParseMembers(toks, i, acc) ==
    IF i > Len(toks) \/ toks[i].tok = "}" THEN acc
    ELSE IF toks[i].tok = "," THEN ParseMembers(toks, i + 1, acc)
    ELSE LET key == toks[i].v[1]
             isList == toks[i + 2].tok = "["
             close == CHOOSE j \in (i + 3)..Len(toks) :
                          /\ toks[j].tok = "]"
                          /\ \A m \in (i + 3)..(j - 1) : toks[m].tok # "]"
             strs == SelectSeq(SubSeq(toks, i + 3, close - 1), IsStrTok)
             value == IF isList THEN JList([n \in 1..Len(strs) |-> strs[n].v])
                      ELSE TokenValue(toks[i + 2])
         IN  ParseMembers(toks, IF isList THEN close + 1 ELSE i + 3, DictSet(acc, key, value))

\* json.load(f) of the text of an object
json_load(toks) == ParseMembers(toks, 2, <<>>)

\* DEFAULT_CFG as a dict
DEFAULT_DICT ==
    << [k |-> "tasks", v |-> JList(<<>>)],
       [k |-> "target_chat_id", v |-> JNull],
       [k |-> "target_thread_id", v |-> JNull],
       [k |-> "send_time", v |-> JStr(T0900)],
       [k |-> "post_on_start", v |-> JBool(FALSE)] >>

KnownOnly(e) == e.k \in {DEFAULT_DICT[i].k : i \in 1..Len(DEFAULT_DICT)}

load_config_text_known_keys(toks) ==
    DictUpdate(DEFAULT_DICT, SelectSeq(json_load(toks), KnownOnly))

\* load_config() on a file that holds the text of an object:
\* merged = DEFAULT_CFG.copy(); merged.update(cfg)
load_config_text(toks) == DictUpdate(DEFAULT_DICT, json_load(toks))

\* the fields a file written by hand holds: some of the known ones and an unknown one
HandFields ==
    { [k |-> "tasks", v |-> JList(<<>>)],
      [k |-> "tasks", v |-> JList(<<TaskA, TaskB>>)],
      [k |-> "target_chat_id", v |-> JNum(0 - 5)],
      [k |-> "send_time", v |-> JStr(<<"0", "9", ":", "0", "5">>)],
      [k |-> "note", v |-> JNum(1)] }

DistinctKeys(d) == \A i, j \in 1..Len(d) : d[i].k = d[j].k => i = j

\* the dicts of at most MaxFields of these fields, in any order
HandDicts == {d \in ListsUpTo(HandFields, MaxFields) : DistinctKeys(d)}

InitText ==
    /\ pc = "edited"
    /\ file \in {[st |-> "ok", doc |-> json_dump(d)] : d \in HandDicts}
    /\ default_tasks = <<>>
    /\ jobs = <<>>
    /\ now \in {MinuteOfDay(<<9, 0>>)}
    /\ pending = {}
    /\ effects = <<>>
    /\ sender = 0
    /\ today = <<>>
    /\ running = {}

\* what the handlers assign before they save
Assignments ==
    { [k |-> "tasks", v |-> JList(<<>>)],
      [k |-> "tasks", v |-> JList(<<TaskB>>)],
      [k |-> "target_chat_id", v |-> JNum(1)],
      [k |-> "target_thread_id", v |-> JNum(7)],
      [k |-> "send_time", v |-> JStr(T0900)] }

\* cfg = load_config(); cfg[k] = v; save_config(cfg)
LoadSetSave(a) ==
    /\ pc \in {"edited", "saved"}
    /\ file' = [st |-> "ok", doc |-> json_dump(DictSet(load_config_text(file.doc), a.k, a.v))]
    /\ pc' = "saved"
    /\ UNCHANGED <<default_tasks, jobs, now, pending, effects, sender, today, running>>

\* save_config(load_config())
LoadSave ==
    /\ pc \in {"saved", "resaved"}
    /\ file' = [st |-> "ok", doc |-> json_dump(load_config_text(file.doc))]
    /\ pc' = "resaved"
    /\ UNCHANGED <<default_tasks, jobs, now, pending, effects, sender, today, running>>

NextText ==
    \/ \E a \in Assignments : LoadSetSave(a)
    \/ LoadSave

SpecText == InitText /\ [][NextText]_vars

\* the entry of key k in the dict d (d has one)
Entry(d, k) == d[CHOOSE i \in 1..Len(d) : d[i].k = k]

HasKey(d, k) == \E i \in 1..Len(d) : d[i].k = k

\* C15 (round trip): on a file save_config wrote, save_config(load_config())
\* writes the same text: the same keys with the same values in the same
\* order.  What save_config writes after a load holds every field of the file
\* it loaded, unknown ones included, with the value it had (but for the field
\* the handler assigned), and every field of DEFAULT_CFG the file lacked with
\* its default.
C15_RoundTrip ==
    /\ [][LoadSave => file' = file]_vars
    /\ [][\A a \in Assignments :
            LoadSetSave(a) =>
              LET old == json_load(file.doc)
                  new == json_load(file'.doc)
              IN  /\ \A i \in 1..Len(old) :
                        /\ HasKey(new, old[i].k)
                        /\ old[i].k # a.k =>
                              json_value(Entry(new, old[i].k).v) = json_value(old[i].v)
                  /\ \A i \in 1..Len(DEFAULT_DICT) :
                        /\ HasKey(new, DEFAULT_DICT[i].k)
                        /\ (~HasKey(old, DEFAULT_DICT[i].k) /\ DEFAULT_DICT[i].k # a.k) =>
                              json_value(Entry(new, DEFAULT_DICT[i].k).v)
                                = json_value(DEFAULT_DICT[i].v)
                  /\ json_value(Entry(new, a.k).v) = json_value(a.v)]_vars

\* a file with an unknown field, a negative chat id and two tasks, written by
\* a handler from a file that lacked fields, has been loaded and saved again
C15_Witness ==
    /\ pc = "resaved"
    /\ LET d == json_load(file.doc)
       IN  /\ HasKey(d, "note")
           /\ Len(d) = Len(DEFAULT_DICT) + 1
           /\ json_value(Entry(d, "target_chat_id").v) = json_value(JNum(0 - 5))
           /\ json_value(Entry(d, "tasks").v) = json_value(JList(<<TaskA, TaskB>>))
           /\ d[Len(d)].k = "note"

(***************************************************************************)
(* The task list as a sequence, and the frame of the commands              *)
(***************************************************************************)
\* the reference sequence: s with x as its last element
RefAppend(s, x) == [i \in 1..(Len(s) + 1) |-> IF i <= Len(s) THEN s[i] ELSE x]

\* the reference sequence: s without its k-th element (1-based)
RefRemove(s, k) == [i \in 1..(Len(s) - 1) |-> IF i < k THEN s[i] ELSE s[i + 1]]

\* the text an /addtask names: its words with one blank between them
TextOf(args) == Strip(Join(args))

\* the line a listing shows for the i-th task (i <= 9)
RefLine(i, t) == <<DigitChars[i + 1], ".", " ">> \o t

TaskCmds == {"addtask_cmd", "deltask_cmd", "cleartasks_cmd"}

\* C18 (the task list is an ordered sequence): an accepted /addtask makes
\* the persisted list the old one with the text appended (duplicates
\* included), an accepted /deltask k the old one without its k-th element,
\* /cleartasks the empty list, and no other step changes the list; a poll's
\* options and a listing's lines are the persisted tasks in their order.
C18_OrderedSequence ==
    /\ [](\A c \in 1..Len(effects) :
            /\ IsPoll(effects[c]) =>
                  /\ Len(effects[c].options) <= Len(StoredTasks)
                  /\ \A i \in 1..Len(effects[c].options) : effects[c].options[i] = StoredTasks[i]
            /\ effects[c].text = "list" =>
                  /\ Len(effects[c].lines) = Len(StoredTasks)
                  /\ \A i \in 1..Len(StoredTasks) :
                        effects[c].lines[i] = RefLine(i, StoredTasks[i]))
    /\ [][/\ StoredTasks' # StoredTasks => LastBy(effects') \in TaskCmds
          /\ LastBy(effects') = "cleartasks_cmd" => StoredTasks' = <<>>
          /\ (LastBy(effects') = "addtask_cmd" /\ effects'[1].text = "added") =>
                \A a \in AddtaskArgs :
                    \/ IsBlank(a)
                    \/ StoredTasks' = RefAppend(StoredTasks, TextOf(a))
                    \/ \A u \in Users : ~AddtaskCmd(u, Direct, a)
          /\ (LastBy(effects') = "deltask_cmd" /\ effects'[1].text = "deleted") =>
                \A a \in DeltaskArgs :
                    \/ NamesNoTask(a)
                    \/ StoredTasks' = RefRemove(StoredTasks, PyInt(a[1]).val)
                    \/ \A u \in Users : ~DeltaskCmd(u, Direct, a)]_vars

\* /deltask 1 has just removed the first of two different tasks: the second is left
C18_Witness ==
    /\ effects = <<Reply(Direct, "deleted", "deltask_cmd")>>
    /\ StoredTasks = << <<"a", " ", "b">> >>
    /\ default_tasks = <<TaskA>>

\* the fields of the persisted record other than the task list
StoredSettings == <<StoredChat, StoredThread, StoredTime, Stored("post_on_start", FALSE)>>

ReadOnlyCmds == {"listtasks_cmd", "preview_cmd", "postnow_cmd", "whereami_cmd", "start_cmd"}

IsGatewayCall(c) == c.api \in {"send_message", "send_poll"}

\* C20 (frame of the non-scheduling commands): /addtask, /deltask and
\* /cleartasks leave every field but tasks, and the job queue, as they were;
\* /listtasks, /preview, /postnow, /whereami and /start leave the whole
\* record and the job queue as they were; and every call /preview makes goes
\* to the chat (and, for the poll, the thread) it was invoked in.
C20_Frame ==
    [][/\ LastBy(effects') \in TaskCmds =>
            /\ StoredSettings' = StoredSettings
            /\ UNCHANGED <<pc, jobs, now, pending>>
       /\ LastBy(effects') \in ReadOnlyCmds =>
            /\ StoredSettings' = StoredSettings
            /\ StoredTasks' = StoredTasks
            /\ UNCHANGED <<pc, file, default_tasks, jobs, now>>
       /\ LastBy(effects') \in {"preview_cmd", "error_handler"} =>
            \A p \in Places, ok \in BOOLEAN :
                PreviewCmd(p, ok) =>
                    /\ UNCHANGED <<pc, file, default_tasks, jobs, now, pending>>
                    /\ \A i \in 1..Len(effects') :
                          IsGatewayCall(effects'[i]) =>
                              /\ effects'[i].chat = p.chat
                              /\ IsDeliveryCall(effects'[i]) => effects'[i].thread = p.thread]_vars

\* /preview, sent in the forum topic while the private chat is the bound
\* destination, has just sent its poll to the topic
C20_Witness ==
    /\ Len(effects) = 1
    /\ effects[1].by = "preview_cmd"
    /\ IsPoll(effects[1])
    /\ effects[1].chat = Topic.chat
    /\ effects[1].thread = Topic.thread
    /\ StoredChat = Direct.chat
    /\ Len(DailyJobs) = 1

(***************************************************************************)
(* Concurrent handlers.  With concurrent_updates(True) the application     *)
(* starts one coroutine per update on its event loop; a coroutine runs     *)
(* until it awaits, and then another one may run.  `running` holds the     *)
(* state (file, DEFAULT_CFG["tasks"], job queue) in which a batch of       *)
(* updates arrived and, per update, the command, how far its handler has   *)
(* run ("created", "loaded", "reply", "done") and the record it loaded.    *)
(***************************************************************************)
AwaitsBetweenLoadAndSave_always(cmd) == TRUE

\* whether a handler awaits between its load_config() and its save_config():
\* in bind_cmd, settime_cmd, addtask_cmd, deltask_cmd and cleartasks_cmd the
\* only await after load_config() is the send_message that ends the handler
AwaitsBetweenLoadAndSave(cmd) == FALSE

\* the updates that arrive together: accepted commands that write the record
ConcCmds ==
    { [cmd |-> "bind_cmd", p |-> Topic, args |-> <<>>],
      [cmd |-> "settime_cmd", p |-> Direct, args |-> << <<"9", ":", "5">> >>],
      [cmd |-> "addtask_cmd", p |-> Direct, args |-> <<TaskA>>],
      [cmd |-> "addtask_cmd", p |-> Direct, args |-> <<TaskB>>],
      [cmd |-> "deltask_cmd", p |-> Direct, args |-> << <<"1">> >>],
      [cmd |-> "cleartasks_cmd", p |-> Direct, args |-> <<>>] }

\* whether the handler reaches its save_config with the record cfg loaded
Saves(c, cfg) ==
    c.cmd # "deltask_cmd" \/ ValidIndex(PyInt(c.args[1]).val - 1, cfg.tasks)

\* the record the handler passes to save_config
Mutated(c, cfg) ==
    IF c.cmd = "bind_cmd"
    THEN [cfg EXCEPT !.target_chat_id = c.p.chat, !.target_thread_id = c.p.thread]
    ELSE IF c.cmd = "settime_cmd"
    THEN [cfg EXCEPT !.send_time = FormatHM(ParseHM(Strip(c.args[1])).hh,
                                            ParseHM(Strip(c.args[1])).mm)]
    ELSE IF c.cmd = "addtask_cmd"
    THEN [cfg EXCEPT !.tasks = Append(cfg.tasks, Strip(Join(c.args)))]
    ELSE IF c.cmd = "deltask_cmd"
    THEN [cfg EXCEPT !.tasks = ListPop(cfg.tasks, PyInt(c.args[1]).val - 1)]
    ELSE [cfg EXCEPT !.tasks = <<>>]

\* the handler from the record it loaded to its last await, in the state st =
\* [file, dt, jobs]: the state it leaves.  aliased: cfg["tasks"] is the list
\* object of DEFAULT_CFG, and holds what that list holds now
Commit(c, cfg, aliased, st) ==
    LET seen == IF aliased THEN [cfg EXCEPT !.tasks = st.dt] ELSE cfg
        f2 == save_config(Mutated(c, seen))
        dt2 == IF aliased /\ c.cmd \in {"addtask_cmd", "deltask_cmd"}
               THEN Mutated(c, seen).tasks ELSE st.dt
    IN  IF ~Saves(c, seen) THEN st
        ELSE [file |-> f2, dt |-> dt2,
              jobs |-> IF c.cmd \in {"bind_cmd", "settime_cmd"}
                       THEN reschedule_jobs(st.jobs, f2, dt2, FALSE).jobs ELSE st.jobs]

\* the message the handler ends with
Answer(c, cfg) ==
    IF c.cmd = "bind_cmd" THEN "bound"
    ELSE IF c.cmd = "settime_cmd" THEN "settime_ok"
    ELSE IF c.cmd = "addtask_cmd" THEN "added"
    ELSE IF c.cmd = "cleartasks_cmd" THEN "cleared"
    ELSE IF Saves(c, cfg) THEN "deleted" ELSE "deltask_no_such_task"

Here == [file |-> file, dt |-> default_tasks, jobs |-> jobs]

\* the application receives a batch of updates and creates their coroutines
Dispatch(batch) ==
    /\ pc = "polling"
    /\ running.tasks = <<>>
    /\ running' = [base |-> Here,
                   tasks |-> [i \in 1..Len(batch) |->
                                [c |-> batch[i], at |-> "created",
                                 cfg |-> DEFAULT_CFG(<<>>), aliased |-> FALSE]]]
    /\ effects' = <<>>
    /\ sender' = 0
    /\ UNCHANGED <<pc, file, default_tasks, jobs, now, pending, today>>

\* the event loop runs coroutine i up to its next await
Resume(i) ==
    /\ pc = "polling"
    /\ i \in 1..Len(running.tasks)
    /\ running.tasks[i].at # "done"
    /\ LET t == running.tasks[i]
           fresh == t.at = "created"
           stops == fresh /\ AwaitsBetweenLoadAndSave(t.c.cmd)
           cfg == IF fresh THEN load_config(file, default_tasks) ELSE t.cfg
           aliased == IF fresh THEN TasksAliased(file) ELSE t.aliased
           after == IF stops \/ t.at = "reply" THEN Here ELSE Commit(t.c, cfg, aliased, Here)
       IN  /\ running' = [running EXCEPT !.tasks[i] =
                            [c |-> t.c,
                             at |-> IF stops THEN "loaded"
                                    ELSE IF t.at = "reply" THEN "done" ELSE "reply",
                             cfg |-> IF stops THEN cfg ELSE DEFAULT_CFG(<<>>),
                             aliased |-> stops /\ aliased]]
           /\ file' = after.file
           /\ default_tasks' = after.dt
           /\ jobs' = after.jobs
           /\ effects' = IF stops \/ t.at = "reply" THEN <<>>
                         ELSE <<Reply(t.c.p,
                                      Answer(t.c, IF aliased
                                                  THEN [cfg EXCEPT !.tasks = default_tasks]
                                                  ELSE cfg),
                                      t.c.cmd)>>
    /\ sender' = 0
    /\ UNCHANGED <<pc, now, pending, today>>

ConcFiles ==
    {Absent,
     save_config([tasks |-> <<TaskA>>, target_chat_id |-> Direct.chat,
                  target_thread_id |-> Direct.thread, send_time |-> T0900,
                  post_on_start |-> FALSE])}

InitConc ==
    /\ pc = "boot"
    /\ file \in ConcFiles
    /\ default_tasks = <<>>
    /\ jobs = <<>>
    /\ now \in Instants
    /\ pending = {}
    /\ effects = <<>>
    /\ sender = 0
    /\ today = <<>>
    /\ running = [base |-> [file |-> file, dt |-> <<>>, jobs |-> <<>>], tasks |-> <<>>]

NextConc ==
    \/ Startup
    \/ Tick
    \/ Fire
    \/ \E d \in pending, ok \in BOOLEAN : GatewayReturn(d, ok)
    \/ \E batch \in [1..MaxRunning -> ConcCmds] : Dispatch(batch)
    \/ \E i \in 1..MaxRunning : Resume(i)

SpecConc == InitConc /\ [][NextConc]_vars

\* the state a handler leaves when it runs alone, from load to return
RunAlone(c, st) == Commit(c, load_config(st.file, st.dt), TasksAliased(st.file), st)

RECURSIVE Serial(_, _)
\* the state the handlers of cs leave when they run one after the other
Serial(cs, st) == IF cs = <<>> THEN st ELSE Serial(Tail(cs), RunAlone(cs[1], st))

\* the orders of n handlers
Orders(n) == {o \in [1..n -> 1..n] : \A i, j \in 1..n : o[i] = o[j] => i = j}

AllReturned ==
    /\ running.tasks # <<>>
    /\ \A i \in 1..Len(running.tasks) : running.tasks[i].at = "done"

\* C19 (no lost updates): when the handlers of a batch of concurrently
\* dispatched commands have all returned, however their steps and the
\* timer's firings interleaved, the persisted record and the job queue are
\* those some one-after-the-other execution of the same commands leaves.
C19_NoLostUpdates ==
    AllReturned =>
        \E o \in Orders(Len(running.tasks)) :
            LET r == Serial([i \in 1..Len(running.tasks) |-> running.tasks[o[i]].c], running.base)
            IN  r.file = file /\ r.jobs = jobs

\* two /addtask ran concurrently with a timer firing in between, and both tasks are stored
C19_Witness ==
    /\ AllReturned
    /\ running.tasks[1].c.cmd = "addtask_cmd"
    /\ running.tasks[2].c.cmd = "addtask_cmd"
    /\ running.tasks[1].c.args # running.tasks[2].c.args
    /\ Len(StoredTasks) = Len(load_config(running.base.file, running.base.dt).tasks) + 2
    /\ pending # {}

====
